---- MODULE Spec2Model ----
(***************************************************************************)
(* A model of the recursive-descent regular-expression parser of          *)
(* src/RE_parser.c.  The parse tree lives in a heap of nodes with          *)
(* MAX_CHILDS child slots each.  RE and RE_prime are run step by step on   *)
(* an explicit call stack: a frame holds the alternative being tried and   *)
(* the constituent reached in it.  The terminal recognizers and the tree   *)
(* functions are operators on the memory.                                  *)
(***************************************************************************)
EXTENDS Integers, Sequences, FiniteSets, TLC

VARIABLES argc, reg_expr, pc, mem, stack, ret, parse_result, stdout, status

vars == <<argc, reg_expr, pc, mem, stack, ret, parse_result, stdout, status>>

(***************************************************************************)
(* Bounds of the model and constants of the program.                       *)
(***************************************************************************)
\* Longest input string (argv[1]) the model explores.
MaxLen == 4

\* Largest argc the model explores: the program name and up to two
\* arguments.
MaxArgc == 3

MAX_CHILDS == 4

INDENTATION == 1

NULL == 0

\* The address of main's local `Node tree'; malloc'ed nodes get 2, 3, ...
TreeAddr == 1

\* The characters inputs are drawn from: two symbols, the five terminals
\* of the grammar and one character no recognizer accepts.
Alphabet == {"a", "b", "(", ")", "*", "+", "#", "!"}

\* ASCII codes of the characters of Alphabet.
Code == [c \in Alphabet |->
           CASE c = "a" -> 97 [] c = "b" -> 98 [] c = "(" -> 40
             [] c = ")" -> 41 [] c = "*" -> 42 [] c = "+" -> 43
             [] c = "#" -> 35 [] c = "!" -> 33]

Inputs == UNION {[1..n -> Alphabet] : n \in 0..MaxLen}

\* What a cursor that was never written holds, as far as the model goes.
NoWrite == -1

\* The status of a program that has not returned from main.
NotExited == -1

(***************************************************************************)
(* The memory.  heap[p] is the node at address p, nfree[p] the number of   *)
(* times free(p) ran.  The other fields are history: reads, the indices of *)
(* reg_expr that were read; calls, rets and rollbacks, the calls, returns  *)
(* and rollbacks that happened; final, the cursors parse compared with the *)
(* terminating NUL.                                                        *)
(***************************************************************************)
\* A node nothing was written to, or one given back to free.
Uninit == [content |-> "?", childs |-> [i \in 1..MAX_CHILDS |-> -1]]

Mem0 == [heap      |-> <<Uninit>>,
         nfree     |-> <<0>>,
         reads     |-> {},
         calls     |-> {},
         rets      |-> {},
         rollbacks |-> {},
         final     |-> {}]

\* The result of a recognizer: its return value, *p_idx_out and the memory.
Res(ok, idx_out, m) == [ok |-> ok, idx_out |-> idx_out, m |-> m]

(***************************************************************************)
(* Parse tree functions.                                                   *)
(***************************************************************************)
\* malloc: a fresh address holding an uninitialised node.
node_new(m) ==
  [m EXCEPT !.heap = Append(@, Uninit), !.nfree = Append(@, 0)]

\* The address node_new(m) returned.
new_addr(m) == Len(m.heap) + 1

node_init(m, p_node, s) ==
  [m EXCEPT !.heap[p_node] =
     [content |-> s, childs |-> [i \in 1..MAX_CHILDS |-> NULL]]]

ChildCount(m, p_node) ==
  Cardinality({i \in 1..MAX_CHILDS : m.heap[p_node].childs[i] # NULL})

\* Mutant of node_add_child: the loop runs from the highest slot down.
node_add_child_from_top(m, p_node, p_child) ==
  LET empty == {i \in 1..MAX_CHILDS : m.heap[p_node].childs[i] = NULL}
  IN  IF empty = {} THEN m
      ELSE LET i == CHOOSE j \in empty : \A k \in empty : j >= k
           IN  [m EXCEPT !.heap[p_node].childs[i] = p_child]

\* The first NULL slot takes the child; a full node drops it silently.
node_add_child(m, p_node, p_child) ==
  LET empty == {i \in 1..MAX_CHILDS : m.heap[p_node].childs[i] = NULL}
  IN  IF empty = {} THEN m
      ELSE LET i == CHOOSE j \in empty : \A k \in empty : j <= k
           IN  [m EXCEPT !.heap[p_node].childs[i] = p_child]

\* In the loops below a memory is bound as the one element of a set, so
\* that it is worked out once, as the C statements do in sequence.

RECURSIVE node_free(_, _)
RECURSIVE node_free_loop(_, _, _)

\* The loop of node_free over the slots i, i+1, ..., MAX_CHILDS of p_node.
node_free_loop(m, p_node, i) ==
  IF i > MAX_CHILDS THEN m
  ELSE CHOOSE r \in
         {node_free_loop(m2, p_node, i + 1) :
            m2 \in {[m1 EXCEPT !.heap[p_node].childs[i] = NULL] :
                      m1 \in {node_free(m, m.heap[p_node].childs[i])}}} : TRUE

\* free(p_node) after its children: the node is counted as freed and what
\* it held is lost.
node_free(m, p_node) ==
  IF p_node = NULL THEN m
  ELSE [node_free_loop(m, p_node, 1) EXCEPT !.nfree[p_node] = @ + 1,
                                            !.heap[p_node] = Uninit]

RECURSIVE node_free_last_childs_loop(_, _, _, _)

\* The loop of node_free_last_childs from slot i down to slot 1.
node_free_last_childs_loop(m, p_node, n, i) ==
  IF i < 1 THEN m
  ELSE IF m.heap[p_node].childs[i] # NULL
       THEN CHOOSE r \in
              {IF n - 1 = 0 THEN m2
               ELSE node_free_last_childs_loop(m2, p_node, n - 1, i - 1) :
                 m2 \in {[m1 EXCEPT !.heap[p_node].childs[i] = NULL] :
                           m1 \in {node_free(m, m.heap[p_node].childs[i])}}} :
              TRUE
       ELSE IF n = 0 THEN m
            ELSE node_free_last_childs_loop(m, p_node, n, i - 1)

\* Mutant of node_free_last_childs: one child fewer than asked is freed.
node_free_last_childs_one_less(m, p_node, n) ==
  IF n = 1 THEN m
  ELSE node_free_last_childs_loop(m, p_node, n - 1, MAX_CHILDS)

node_free_last_childs(m, p_node, n) ==
  node_free_last_childs_loop(m, p_node, n, MAX_CHILDS)

RECURSIVE node_free_childs_loop(_, _, _)

node_free_childs_loop(m, p_node, i) ==
  IF i > MAX_CHILDS THEN m
  ELSE CHOOSE r \in
         {node_free_childs_loop(m2, p_node, i + 1) :
            m2 \in {[m1 EXCEPT !.heap[p_node].childs[i] = NULL] :
                      m1 \in {node_free(m, m.heap[p_node].childs[i])}}} : TRUE

\* Mutant of node_free_childs: the loop starts one slot late.
node_free_childs_from_second(m, p_node) ==
  node_free_childs_loop(m, p_node, 2)

node_free_childs(m, p_node) == node_free_childs_loop(m, p_node, 1)

RECURSIVE tree_print(_, _, _)
RECURSIVE tree_print_loop(_, _, _, _)

\* The lines tree_print writes: <<number of dashes, content>> each.
tree_print_loop(m, p_node, indent, i) ==
  IF i > MAX_CHILDS THEN <<>>
  ELSE tree_print(m, m.heap[p_node].childs[i], indent + INDENTATION)
         \o tree_print_loop(m, p_node, indent, i + 1)

tree_print(m, p_node, indent) ==
  IF p_node = NULL THEN <<>>
  ELSE <<(<<indent, m.heap[p_node].content>>)>>
         \o tree_print_loop(m, p_node, indent, 1)

(***************************************************************************)
(* Terminals.                                                              *)
(***************************************************************************)
\* reg_expr[i] in C: the characters, then the terminating NUL.  No index
\* past the NUL is ever read (C10_CursorInBounds), so what lies there is
\* of no account.
Char(str, i) == IF i < Len(str) THEN Code[str[i + 1]] ELSE 0

\* The memory with the read of reg_expr[i] on record.
Read(m, i) == [m EXCEPT !.reads = @ \cup {i}]

\* node_new, node_init, node_add_child: a new node labelled s under p_node.
attach(m, p_node, s) ==
  node_add_child(node_init(node_new(m), new_addr(m), s), p_node, new_addr(m))

epsilon(str, idx_in, p_node, m) ==
  LET i == idx_in
  IN  IF Char(str, i) = 35
      THEN Res(TRUE, i + 1, attach(Read(m, i), p_node, "#"))
      ELSE Res(FALSE, NoWrite, Read(m, i))

\* Mutant of symbol: the label is the character after the one recognized.
symbol_next_label(str, idx_in, p_node, m) ==
  LET i == idx_in
      c == Char(str, i)
  IN  IF \/ c = 95
         \/ (48 <= c /\ c <= 57)
         \/ (65 <= c /\ c <= 90)
         \/ (97 <= c /\ c <= 122)
      THEN Res(TRUE, i + 1,
               attach(Read(m, i), p_node,
                      IF i + 1 < Len(str) THEN str[i + 2] ELSE ""))
      ELSE Res(FALSE, NoWrite, Read(m, i))

symbol(str, idx_in, p_node, m) ==
  LET i == idx_in
      c == Char(str, i)
  IN  IF \/ c = 95
         \/ (48 <= c /\ c <= 57)
         \/ (65 <= c /\ c <= 90)
         \/ (97 <= c /\ c <= 122)
      THEN Res(TRUE, i + 1, attach(Read(m, i), p_node, str[i + 1]))
      ELSE Res(FALSE, NoWrite, Read(m, i))

lpar(str, idx_in, p_node, m) ==
  LET i == idx_in
  IN  IF 40 = Char(str, i)
      THEN Res(TRUE, i + 1, attach(Read(m, i), p_node, "("))
      ELSE Res(FALSE, NoWrite, Read(m, i))

rpar(str, idx_in, p_node, m) ==
  LET i == idx_in
  IN  IF 41 = Char(str, i)
      THEN Res(TRUE, i + 1, attach(Read(m, i), p_node, ")"))
      ELSE Res(FALSE, NoWrite, Read(m, i))

\* Mutant of star: the output cursor skips a character.
star_skips(str, idx_in, p_node, m) ==
  LET i == idx_in
  IN  IF 42 = Char(str, i)
      THEN Res(TRUE, i + 2, attach(Read(m, i), p_node, "*"))
      ELSE Res(FALSE, NoWrite, Read(m, i))

star(str, idx_in, p_node, m) ==
  LET i == idx_in
  IN  IF 42 = Char(str, i)
      THEN Res(TRUE, i + 1, attach(Read(m, i), p_node, "*"))
      ELSE Res(FALSE, NoWrite, Read(m, i))

plus(str, idx_in, p_node, m) ==
  LET i == idx_in
  IN  IF 43 = Char(str, i)
      THEN Res(TRUE, i + 1, attach(Read(m, i), p_node, "+"))
      ELSE Res(FALSE, NoWrite, Read(m, i))

(***************************************************************************)
(* Variables.  The alternatives of RE and RE_prime in the order the code   *)
(* tries them, each the calls it makes from left to right.                 *)
(***************************************************************************)
\* Mutant of Alts_RE: RE -> symbol is tried before RE -> symbol RE'.
Alts_RE_symbol_first ==
  << <<"#", "RE'">>, <<"symbol">>, <<"(", "RE", ")", "RE'">>,
     <<"(", "RE", ")">>, <<"#">>, <<"symbol", "RE'">> >>

\* Mutant of Alts_RE: a left-recursive alternative RE -> RE RE' is left in.
Alts_RE_left_recursive ==
  << <<"#", "RE'">>, <<"symbol", "RE'">>, <<"(", "RE", ")", "RE'">>,
     <<"(", "RE", ")">>, <<"RE", "RE'">>, <<"#">>, <<"symbol">> >>

Alts_RE ==
  << <<"#", "RE'">>, <<"symbol", "RE'">>, <<"(", "RE", ")", "RE'">>,
     <<"(", "RE", ")">>, <<"#">>, <<"symbol">> >>

\* Mutant of Alts_RE_prime: the alternative RE' -> RE is left out.
Alts_RE_prime_without_RE ==
  << <<"+", "RE", "RE'">>, <<"+", "RE">>, <<"*", "RE'">>,
     <<"RE", "RE'">>, <<"*">> >>

Alts_RE_prime ==
  << <<"+", "RE", "RE'">>, <<"+", "RE">>, <<"*", "RE'">>,
     <<"RE", "RE'">>, <<"RE">>, <<"*">> >>

Alts(v) == IF v = "RE" THEN Alts_RE ELSE Alts_RE_prime

IsVariable(x) == x \in {"RE", "RE'"}

\* Mutant of RollbackCount: ( RE ) RE' gives back two children, not three,
\* when RE' fails.
RollbackCount_two(fn, alt, pos) ==
  IF fn = "RE" /\ alt = 3 /\ pos = 4 THEN 2 ELSE pos - 1

\* The n of the node_free_last_childs(own node, n) that follows the
\* failure of constituent pos (2, 3 or 4) of alternative alt.
RollbackCount(fn, alt, pos) ==
  IF fn = "RE'"
  THEN CASE alt = 1 /\ pos = 3 -> 2
         [] alt = 1 /\ pos = 2 -> 1
         [] alt = 2 /\ pos = 2 -> 1
         [] alt = 3 /\ pos = 2 -> 1
         [] alt = 4 /\ pos = 2 -> 1
  ELSE CASE alt = 1 /\ pos = 2 -> 1
         [] alt = 2 /\ pos = 2 -> 1
         [] alt = 3 /\ pos = 4 -> 3
         [] alt = 3 /\ pos = 3 -> 2
         [] alt = 3 /\ pos = 2 -> 1
         [] alt = 4 /\ pos = 3 -> 2
         [] alt = 4 /\ pos = 2 -> 1

\* The call of the terminal recognizer for grammar symbol x.
Recognize(x, str, idx_in, p_node, m) ==
  CASE x = "#"      -> epsilon(str, idx_in, p_node, m)
    [] x = "symbol" -> symbol(str, idx_in, p_node, m)
    [] x = "("      -> lpar(str, idx_in, p_node, m)
    [] x = ")"      -> rpar(str, idx_in, p_node, m)
    [] x = "*"      -> star(str, idx_in, p_node, m)
    [] x = "+"      -> plus(str, idx_in, p_node, m)

\* The name of that recognizer in the history.
RecognizerName(x) ==
  CASE x = "#" -> "epsilon" [] x = "symbol" -> "symbol" [] x = "(" -> "lpar"
    [] x = ")" -> "rpar" [] x = "*" -> "star" [] x = "+" -> "plus"

(***************************************************************************)
(* The call stack.  A frame is one call of RE or RE_prime: fn, the cursor  *)
(* *p_idx_in, the caller's node p_node, its own node, the alternative alt  *)
(* it is in, the constituent pos it has reached and the cursor cur that    *)
(* constituent starts from; childs0 and top0 keep what p_node held and how *)
(* many nodes existed when the call was made.                              *)
(***************************************************************************)
Top == stack[Len(stack)]

Pop == SubSeq(stack, 1, Len(stack) - 1)

NoRet == [set |-> FALSE, ok |-> FALSE, out |-> NoWrite]

\* The grammar symbol the frame f is about to try.
NextSymbol(f) == Alts(f.fn)[f.alt][f.pos]

\* A call of RE or RE_prime at a cursor where the same procedure is already
\* active: its decisions rest on reg_expr and the cursor alone, so the call
\* repeats itself for ever.
Reentered(fn, idx_in) ==
  \E k \in 1..Len(stack) : stack[k].fn = fn /\ stack[k].in = idx_in

\* The caller of a call made now.
Caller == IF stack = <<>> THEN <<"parse", 0>> ELSE <<Top.fn, Top.in>>

CallEvent(fn, idx_in) ==
  [fn |-> fn, in |-> idx_in, from |-> Caller,
   reentry |-> Reentered(fn, idx_in)]

\* The return of fn, called at idx_in on p_node when p_node held childs0
\* and top0 nodes existed, leaving memory m.  restored: p_node holds what
\* it held and every node allocated since is freed.
RetEvent(fn, idx_in, ok, out, alt, p_node, childs0, top0, m) ==
  [fn |-> fn, in |-> idx_in, ok |-> ok, out |-> out, alt |-> alt,
   restored |-> /\ m.heap[p_node].childs = childs0
                /\ \A p \in top0 + 1 .. Len(m.heap) : m.nfree[p] = 1]

\* node_free_last_childs(p_node, n) as RE and RE_prime call it on their own
\* node after a failed alternative, with the child counts around it.
Rollback(fn, m, p_node, n) ==
  CHOOSE r \in
    {[m1 EXCEPT !.rollbacks = @ \cup
        {[fn |-> fn, n |-> n,
          before |-> ChildCount(m, p_node),
          after |-> ChildCount(m1, p_node)]}] :
       m1 \in {node_free_last_childs(m, p_node, n)}} : TRUE

\* fn is called at cursor idx_in with node p_node in memory m: it makes
\* its node and starts on its first alternative.  A re-entered call never
\* returns.
Enter(fn, idx_in, p_node, m) ==
  IF Reentered(fn, idx_in)
  THEN /\ pc' = "hang"
       /\ mem' = [m EXCEPT !.calls = @ \cup {CallEvent(fn, idx_in)}]
       /\ UNCHANGED <<stack, ret>>
  ELSE /\ pc' = "running"
       /\ mem' = [attach(m, p_node, fn)
                    EXCEPT !.calls = @ \cup {CallEvent(fn, idx_in)}]
       /\ stack' = Append(stack,
            [fn |-> fn, in |-> idx_in, parent |-> p_node,
             self |-> new_addr(m), alt |-> 1, pos |-> 1, cur |-> idx_in,
             childs0 |-> m.heap[p_node].childs, top0 |-> Len(m.heap)])
       /\ ret' = NoRet

\* The constituent the frame f was at returned true with cursor out,
\* leaving memory m: f goes on to the next one; after the last one it
\* returns true with out.
Succeed(f, out, m) ==
  IF f.pos = Len(Alts(f.fn)[f.alt])
  THEN /\ stack' = Pop
       /\ ret' = [set |-> TRUE, ok |-> TRUE, out |-> out]
       /\ mem' = [m EXCEPT !.rets = @ \cup
                    {RetEvent(f.fn, f.in, TRUE, out, f.alt, f.parent,
                              f.childs0, f.top0, m)}]
  ELSE /\ stack' = [stack EXCEPT ![Len(stack)] =
                      [f EXCEPT !.pos = @ + 1, !.cur = out]]
       /\ ret' = NoRet
       /\ mem' = m

\* The constituent the frame f was at returned false, leaving memory m:
\* f gives back the children the alternative attached and goes on to the
\* next alternative; after the last one it gives back its own node and
\* returns false.
Failed(f, m) ==
  \E m1 \in {IF f.pos > 1
             THEN Rollback(f.fn, m, f.self, RollbackCount(f.fn, f.alt, f.pos))
             ELSE m} :
    IF f.alt < Len(Alts(f.fn))
    THEN /\ stack' = [stack EXCEPT ![Len(stack)] =
                        [f EXCEPT !.alt = @ + 1, !.pos = 1, !.cur = f.in]]
         /\ ret' = NoRet
         /\ mem' = m1
    ELSE \E m2 \in {node_free_last_childs(m1, f.parent, 1)} :
           /\ stack' = Pop
           /\ ret' = [set |-> TRUE, ok |-> FALSE, out |-> NoWrite]
           /\ mem' = [m2 EXCEPT !.rets = @ \cup
                        {RetEvent(f.fn, f.in, FALSE, NoWrite, 0, f.parent,
                                  f.childs0, f.top0, m2)}]

\* Mutant of parse_return: the result of RE is returned as it is, with no
\* test for the end of the input.
parse_return_prefix(str, ok, end_index) == ok

\* The value parse returns.
parse_return(str, ok, end_index) == ok /\ Char(str, end_index) = 0

(***************************************************************************)
(* main.                                                                   *)
(***************************************************************************)
\* The line the two printf of the argument check write.
WrongArguments(n) ==
  "Wrong number of command-line arguments: " \o ToString(n - 1)
    \o " arguments found, " \o ToString(1) \o " expected"

\* reg_expr is argv[1]; with argc # 2 the program never reads it.
Init ==
  /\ argc \in 1..MaxArgc
  /\ reg_expr \in IF argc = 2 THEN Inputs ELSE {<<>>}
  /\ status = NotExited
  /\ pc = "start"
  /\ mem = Mem0
  /\ stack = <<>>
  /\ ret = NoRet
  /\ parse_result = FALSE
  /\ stdout = <<>>

\* if (argc != 2): the complaint is printed and main returns 1.
UsageError ==
  /\ pc = "start"
  /\ argc # 2
  /\ stdout' = <<(<<0, WrongArguments(argc)>>)>>
  /\ status' = 1
  /\ pc' = "usage"
  /\ UNCHANGED <<argc, reg_expr, mem, stack, ret, parse_result>>

\* main calls parse, parse initialises the root and calls RE at cursor 0.
Parse ==
  /\ pc = "start"
  /\ argc = 2
  /\ Enter("RE", 0, TreeAddr, node_init(mem, TreeAddr, "Root"))
  /\ UNCHANGED <<argc, status, reg_expr, parse_result, stdout>>

\* The running procedure calls a terminal recognizer and acts on what it
\* returns.
CallTerminal ==
  /\ pc = "running"
  /\ ~ret.set
  /\ stack # <<>>
  /\ ~IsVariable(NextSymbol(Top))
  /\ \E r \in {Recognize(NextSymbol(Top), reg_expr, Top.cur, Top.self, mem)} :
     \E m \in {[r.m EXCEPT !.rets = @ \cup
                  {RetEvent(RecognizerName(NextSymbol(Top)), Top.cur, r.ok,
                            r.idx_out, 0, Top.self,
                            mem.heap[Top.self].childs, Len(mem.heap), r.m)}]} :
       IF r.ok THEN Succeed(Top, r.idx_out, m) ELSE Failed(Top, m)
  /\ UNCHANGED <<argc, status, reg_expr, pc, parse_result, stdout>>

\* The running procedure calls RE or RE_prime.
CallVariable ==
  /\ pc = "running"
  /\ ~ret.set
  /\ stack # <<>>
  /\ IsVariable(NextSymbol(Top))
  /\ Enter(NextSymbol(Top), Top.cur, Top.self, mem)
  /\ UNCHANGED <<argc, status, reg_expr, parse_result, stdout>>

\* RE or RE_prime has returned to the procedure that called it.
Resume ==
  /\ pc = "running"
  /\ ret.set
  /\ stack # <<>>
  /\ IF ret.ok THEN Succeed(Top, ret.out, mem) ELSE Failed(Top, mem)
  /\ UNCHANGED <<argc, status, reg_expr, pc, parse_result, stdout>>

\* RE has returned to parse, and parse returns to main.
ParseReturn ==
  /\ pc = "running"
  /\ ret.set
  /\ stack = <<>>
  /\ LET end_index == IF ret.ok THEN ret.out ELSE 0
     IN  /\ parse_result' = parse_return(reg_expr, ret.ok, end_index)
         /\ mem' = IF ret.ok
                   THEN [Read(mem, end_index)
                           EXCEPT !.final = @ \cup {end_index}]
                   ELSE mem
  /\ ret' = NoRet
  /\ pc' = "parsed"
  /\ UNCHANGED <<argc, status, reg_expr, stack, stdout>>

\* tree_print(tree.childs[0], 0).
PrintTree ==
  /\ pc = "parsed"
  /\ parse_result
  /\ stdout' = tree_print(mem, mem.heap[TreeAddr].childs[1], 0)
  /\ pc' = "reported"
  /\ UNCHANGED <<argc, status, reg_expr, mem, stack, ret, parse_result>>

\* printf("Syntax error\n").
SyntaxError ==
  /\ pc = "parsed"
  /\ ~parse_result
  /\ stdout' = <<(<<0, "Syntax error">>)>>
  /\ pc' = "reported"
  /\ UNCHANGED <<argc, status, reg_expr, mem, stack, ret, parse_result>>

\* node_free_childs(&tree); return 0.
Cleanup ==
  /\ pc = "reported"
  /\ mem' = node_free_childs(mem, TreeAddr)
  /\ status' = 0
  /\ pc' = "done"
  /\ UNCHANGED <<argc, reg_expr, stack, ret, parse_result, stdout>>

Next ==
  \/ UsageError
  \/ Parse
  \/ CallTerminal
  \/ CallVariable
  \/ Resume
  \/ ParseReturn
  \/ PrintTree
  \/ SyntaxError
  \/ Cleanup

Spec == Init /\ [][Next]_vars

\* The program is a single thread that runs whenever it can.
FairSpec == Spec /\ WF_vars(Next)

(***************************************************************************)
(* The tree below a node, as the claims read it.                           *)
(***************************************************************************)
\* The occupied slots of p_node, in slot order.
Kids(m, p_node) ==
  LET c == m.heap[p_node].childs
  IN  SelectSeq([i \in 1..MAX_CHILDS |-> c[i]], LAMBDA x : x # NULL)

RECURSIVE Tree(_, _)
RECURSIVE Forest(_, _)

Forest(m, ps) ==
  IF ps = <<>> THEN <<>> ELSE <<Tree(m, Head(ps))>> \o Forest(m, Tail(ps))

\* <<label, subtrees>> of the node at p_node.
Tree(m, p_node) == <<m.heap[p_node].content, Forest(m, Kids(m, p_node))>>

RECURSIVE Reach(_, _)

\* The addresses reachable from p_node through child slots.
Reach(m, p_node) ==
  {p_node} \cup
    UNION {Reach(m, m.heap[p_node].childs[i]) :
             i \in {j \in 1..MAX_CHILDS : m.heap[p_node].childs[j] # NULL}}

\* The parse has returned.
Returned_parse == pc \in {"parsed", "reported"}

Root == mem.heap[TreeAddr]

IsSymbolChar(c) ==
  LET x == Code[c]
  IN  x = 95 \/ (48 <= x /\ x <= 57) \/ (65 <= x /\ x <= 90)
        \/ (97 <= x /\ x <= 122)

(***************************************************************************)
(* The grammar, read as a context-free grammar over the alternatives of    *)
(* Alts, and its reading as an ordered choice.                             *)
(***************************************************************************)
\* The terminal x of the grammar is the character c.
IsTerminal(x, c) == IF x = "symbol" THEN IsSymbolChar(c) ELSE x = c

RECURSIVE Derives(_, _, _, _)
RECURSIVE DerivesSeq(_, _, _, _)

\* The grammar symbols xs derive str[i+1..j], as a context-free grammar
\* does: any alternative, any split.
DerivesSeq(xs, str, i, j) ==
  IF xs = <<>> THEN i = j
  ELSE IF Len(xs) = 1 THEN Derives(xs[1], str, i, j)
  ELSE \E k \in i + 1 .. j - 1 :
         Derives(xs[1], str, i, k) /\ DerivesSeq(Tail(xs), str, k, j)

Derives(x, str, i, j) ==
  IF IsVariable(x)
  THEN i < j /\ \E a \in 1..Len(Alts(x)) : DerivesSeq(Alts(x)[a], str, i, j)
  ELSE j = i + 1 /\ j <= Len(str) /\ IsTerminal(x, str[j])

InLanguage(str) == Derives("RE", str, 0, Len(str))

RECURSIVE Peg(_, _, _)
RECURSIVE PegSeq(_, _, _, _)
RECURSIVE PegAlts(_, _, _, _)

\* The constituents xs recognized one after the other from cursor i, with
\* the trees acc of those recognized so far.
PegSeq(xs, str, i, acc) ==
  IF xs = <<>> THEN [ok |-> TRUE, out |-> i, trees |-> acc]
  ELSE LET r == Peg(xs[1], str, i)
       IN  IF r.ok THEN PegSeq(Tail(xs), str, r.out, Append(acc, r.tree))
           ELSE [ok |-> FALSE, out |-> i, trees |-> <<>>]

\* The first of the alternatives a, a+1, ... of x whose constituents all
\* succeed from cursor i.
PegAlts(x, a, str, i) ==
  IF a > Len(Alts(x)) THEN [ok |-> FALSE, out |-> i, tree |-> <<>>, alt |-> 0]
  ELSE LET r == PegSeq(Alts(x)[a], str, i, <<>>)
       IN  IF r.ok
           THEN [ok |-> TRUE, out |-> r.out, tree |-> <<x, r.trees>>,
                 alt |-> a]
           ELSE PegAlts(x, a + 1, str, i)

\* Ordered choice: what the grammar symbol x recognizes from cursor i.
Peg(x, str, i) ==
  IF IsVariable(x) THEN PegAlts(x, 1, str, i)
  ELSE IF i < Len(str) /\ IsTerminal(x, str[i + 1])
       THEN [ok |-> TRUE, out |-> i + 1, tree |-> <<str[i + 1], <<>>>>,
             alt |-> 0]
       ELSE [ok |-> FALSE, out |-> i, tree |-> <<>>, alt |-> 0]


(***************************************************************************)
(* Claims.                                                                 *)
(***************************************************************************)
\* C1: parse(s) returns true if and only if the grammar derives the whole
\* of s from RE.
C1_ParseIffDerives ==
  Returned_parse => (parse_result <=> InLanguage(reg_expr))

\* C1 witness: an input that RE derives only after RE_prime gave up its
\* first alternatives has been accepted.
C1_Witness ==
  /\ Returned_parse
  /\ reg_expr = <<"(", "a", ")", "b">>
  /\ parse_result

\* C2 as stated: parse("ab") fails and parse("a+b") succeeds.
C2_Original ==
  Returned_parse =>
    /\ reg_expr = <<"a", "b">> => ~parse_result
    /\ reg_expr = <<"a", "+", "b">> => parse_result

\* C2 amended: parse("ab") succeeds, the second symbol being the RE of the
\* alternative RE' -> RE, and parse("a+b") succeeds.
C2_AdjacentSymbolsAccepted ==
  Returned_parse =>
    /\ reg_expr = <<"a", "b">> =>
         /\ parse_result
         /\ Tree(mem, Root.childs[1]) =
              <<"RE", << <<"a", <<>>>>,
                         <<"RE'", << <<"RE", << <<"b", <<>>>> >>>> >>>> >>>>
    /\ reg_expr = <<"a", "+", "b">> => parse_result

\* C2 witness: parse("ab") has returned true.
C2_Witness ==
  Returned_parse /\ reg_expr = <<"a", "b">> /\ parse_result


\* The tree parse returned: the one below the single child of the root.
ParseTree == Tree(mem, Root.childs[1])

\* C3: the tree of an accepted input is, node by node, the first
\* alternative in the declared order whose constituents all succeed from
\* the node's cursor; for "a*" it is RE [a, RE' [*]].
C3_FirstAlternativeWins ==
  (Returned_parse /\ parse_result) =>
    /\ ParseTree = Peg("RE", reg_expr, 0).tree
    /\ reg_expr = <<"a", "*">> =>
         ParseTree = <<"RE", << <<"a", <<>>>>,
                                <<"RE'", << <<"*", <<>>>> >>>> >>>>

\* C3 witness: "a*" has been accepted.
C3_Witness ==
  Returned_parse /\ parse_result /\ reg_expr = <<"a", "*">>

RECURSIVE Leaves(_)
RECURSIVE LeavesOf(_)

LeavesOf(trees) ==
  IF trees = <<>> THEN <<>>
  ELSE Leaves(Head(trees)) \o LeavesOf(Tail(trees))

\* The labels of the leaves of a tree, left to right.
Leaves(tree) == IF tree[2] = <<>> THEN <<tree[1]>> ELSE LeavesOf(tree[2])

\* The same with every "#" leaf contributing the empty string.
LeavesEps(tree) == SelectSeq(Leaves(tree), LAMBDA c : c # "#")

\* C4 as stated: the leaves of the tree, "#" leaves counting as the empty
\* string, spell the input.
C4_Original ==
  (Returned_parse /\ parse_result) => LeavesEps(ParseTree) = reg_expr

\* C4 amended: the labels of the leaves of the tree, a "#" leaf
\* contributing its label "#", spell the input.
C4_LeavesSpellInput ==
  (Returned_parse /\ parse_result) => Leaves(ParseTree) = reg_expr

\* C4 witness: an input with a "#" and two other characters is accepted.
C4_Witness ==
  Returned_parse /\ parse_result /\ reg_expr = <<"#", "+", "b">>

\* C5: after a failed parse and node_free_childs on the root, every node
\* node_new allocated has been freed exactly once and none hangs from the
\* root; at no time has a node been freed twice.
C5_FailedParseLeaksNothing ==
  (pc # "start" /\ ~parse_result) =>
    /\ \A p \in 1..Len(mem.nfree) : mem.nfree[p] <= 1
    /\ pc = "done" =>
         /\ \A p \in 2..Len(mem.heap) : mem.nfree[p] = 1
         /\ mem.nfree[TreeAddr] = 0
         /\ Reach(mem, TreeAddr) = {TreeAddr}

\* C5 witness: RE succeeded, trailing input made parse fail, and the
\* driver has cleaned up.
C5_Witness ==
  /\ pc = "done"
  /\ ~parse_result
  /\ \E e \in mem.rets : e.fn = "RE" /\ e.in = 0 /\ e.ok
  /\ Len(mem.heap) > 2

\* C6: (a) a recognizer, RE or RE_prime that returned false left the nodes
\* of before the call as they were and freed every node allocated during
\* it; (b) each node_free_last_childs of RE and RE_prime on their own node
\* removed the k children the failed alternative attached and left none.
C6_FailureRestoresTree ==
  /\ \A e \in mem.rets : ~e.ok => e.restored
  /\ \A e \in mem.rollbacks : e.before = e.n /\ e.after = 0

\* C6 witness: an alternative that attached three children was rolled
\* back and an RE_prime returned false.
C6_Witness ==
  /\ \E e \in mem.rollbacks : e.n = 3
  /\ \E e \in mem.rets : e.fn = "RE'" /\ ~e.ok

\* The grammar symbol the node at p stands for.
Kind(m, p) ==
  LET c == m.heap[p].content
  IN  IF c \in Alphabet /\ IsSymbolChar(c) THEN "symbol" ELSE c

\* The node at p is a terminal leaf, or a variable whose children fill the
\* first slots and are the symbols of one alternative of its production.
WellFormed(m, p) ==
  LET c == m.heap[p].content
      k == ChildCount(m, p)
  IN  /\ \A i \in 1..MAX_CHILDS : (i <= k) <=> m.heap[p].childs[i] # NULL
      /\ IF IsVariable(c)
         THEN \E a \in 1..Len(Alts(c)) :
                Alts(c)[a] = [i \in 1..k |-> Kind(m, m.heap[p].childs[i])]
         ELSE k = 0 /\ Kind(m, p) \in {"#", "symbol", "(", ")", "*", "+"}

\* C7: when parse returns true the root, labelled "Root", has exactly one
\* child, labelled RE, and every node reachable from it is well formed.
C7_TreeShape ==
  (Returned_parse /\ parse_result) =>
    /\ Root.content = "Root"
    /\ Root.childs[1] # NULL
    /\ \A i \in 2..MAX_CHILDS : Root.childs[i] = NULL
    /\ mem.heap[Root.childs[1]].content = "RE"
    /\ \A p \in Reach(mem, Root.childs[1]) : WellFormed(mem, p)

\* C7 witness: an accepted tree has a node with all four slots in use.
C7_Witness ==
  /\ Returned_parse
  /\ parse_result
  /\ \E p \in Reach(mem, Root.childs[1]) : ChildCount(mem, p) = MAX_CHILDS

\* No call of RE or RE_prime re-entered a procedure active at the same
\* cursor, and RE called RE and RE_prime at later cursors only.
NoReentry ==
  /\ pc # "hang"
  /\ \A k, l \in 1..Len(stack) :
       (stack[k].fn = stack[l].fn /\ stack[k].in = stack[l].in) => k = l
  /\ \A e \in mem.calls :
       /\ ~e.reentry
       /\ e.from[1] = "RE" => e.in > e.from[2]

\* C8: parse terminates for every input, every parse that is running
\* returning to main, and no chain of calls re-enters the same procedure at
\* the same cursor: RE calls RE and RE_prime only past its own cursor.
C8_Terminates == []NoReentry /\ (pc = "running" ~> pc = "parsed")

\* C8 witness: RE_prime called RE at its own cursor and the program ended.
C8_Witness ==
  /\ pc = "done"
  /\ \E e \in mem.calls :
       e.fn = "RE" /\ e.from[1] = "RE'" /\ e.in = e.from[2]

\* C9: wherever RE or RE_prime returned true with output cursor j,
\* RE_prime fails at j; the alternatives + RE RE' and RE RE' never
\* succeed; no RE' node of an accepted tree has more than two children or
\* an RE child followed by an RE' child.
C9_GreedyRE ==
  /\ \A e \in mem.rets :
       (IsVariable(e.fn) /\ e.ok) =>
         /\ \E f \in mem.rets : f.fn = "RE'" /\ f.in = e.out /\ ~f.ok
         /\ ~\E f \in mem.rets : f.fn = "RE'" /\ f.in = e.out /\ f.ok
  /\ \A e \in mem.rets : (e.fn = "RE'" /\ e.ok) => e.alt \notin {1, 4}
  /\ (Returned_parse /\ parse_result) =>
       \A p \in Reach(mem, Root.childs[1]) :
         mem.heap[p].content = "RE'" =>
           /\ ChildCount(mem, p) <= 2
           /\ \A i \in 1..MAX_CHILDS - 1 :
                ~ /\ mem.heap[p].childs[i] # NULL
                  /\ mem.heap[p].childs[i + 1] # NULL
                  /\ Kind(mem, mem.heap[p].childs[i]) = "RE"
                  /\ Kind(mem, mem.heap[p].childs[i + 1]) = "RE'"

\* C9 witness: an RE_prime returned true through RE' -> RE before the end
\* of the input.
C9_Witness ==
  /\ Returned_parse
  /\ \E e \in mem.rets :
       e.fn = "RE'" /\ e.ok /\ e.alt = 5 /\ e.out < Len(reg_expr)

\* C10: every successful recognizer, RE and RE_prime returned a cursor
\* beyond its input cursor and at most the length of the input; every
\* index read is within 0..length; parse read the final cursor only after
\* RE returned true with it.
C10_CursorInBounds ==
  /\ \A e \in mem.rets : e.ok => (e.in < e.out /\ e.out <= Len(reg_expr))
  /\ mem.reads \subseteq 0..Len(reg_expr)
  /\ \A j \in mem.final :
       \E e \in mem.rets : e.fn = "RE" /\ e.in = 0 /\ e.ok /\ e.out = j

\* C10 witness: the terminating NUL of an input of three characters or
\* more was read, by parse too.
C10_Witness ==
  /\ Len(reg_expr) >= 3
  /\ Len(reg_expr) \in mem.reads
  /\ mem.final = {Len(reg_expr)}

====
